---- MODULE Spec2Model ----
(***************************************************************************)
(* The restaurant dashboard of viz/__main__.py: the inspection table DF    *)
(* loaded once by read_data_set, the selector get_top_N, the geocoder      *)
(* get_lat_lon / find_lat_lon and the map presenter plot_map, driven by    *)
(* the Dash callbacks print_table and plot_selection.                      *)
(***************************************************************************)
EXTENDS Integers, Sequences, FiniteSets, TLC

VARIABLES
    DF,         \* the inspection table read at import, shared by the callbacks
    quicksort,  \* the order the build's sort gives to equal keys, per sort
    value,      \* cuisine of the latest selection (the dropdown's value)
    n,          \* N of the latest get_top_N call
    top_ten,    \* rows returned by the latest get_top_N call
    pc,         \* where the map callback is: idle, find_lat_lon, done, failed
    lat_lons,   \* points find_lat_lon has collected so far
    responses,  \* what the geocoding service answered, lookup by lookup
    queries,    \* index labels of the rows whose address was looked up
    fig         \* the figure of the running plot_map call, once built

vars == <<DF, quicksort, value, n, top_ten, pc, lat_lons, responses, queries, fig>>

(* ------------------------------ bounds --------------------------------- *)
\* rows of the inspection table handed to get_top_N
MaxRows == 2
\* rows of the inspection table behind the map chain
MaxMapRows == 2
\* restaurant identifiers are 1..MaxCamis
MaxCamis == 2
\* inspection scores are 0..MaxScore
MaxScore == 1
\* grade dates are 1..MaxDate, compared as sort_values compares the values of
\* the GRADE DATE column: a later date is a larger number
MaxDate == 2
\* explicit values of N are 0..MaxN
MaxN == 2

\* def get_top_N(restos, cuisine_type='Thai', N=10)
DefaultN == 10
DefaultCuisine == "Thai"

(* --------------------------- the data set ------------------------------ *)
Grades == {"A", "B", "C", "Not Yet Graded"}
\* cuisines stored in the table; "thai" differs from "Thai" by case only
TableCuisines == {"Thai", "thai"}
\* dropdown values: cuisines of the table and one that no record carries
DropdownValues == TableCuisines \cup {"Sushi"}

\* One line of the CSV feed: an inspection event of a restaurant.
CsvRows ==
    [CAMIS : 1..MaxCamis, CUISINE_DESCRIPTION : TableCuisines, GRADE : Grades,
     SCORE : 0..MaxScore, GRADE_DATE : 1..MaxDate]

\* Lines of the default cuisine with an eligible or a not eligible grade:
\* the lines of the tables one row longer than MaxRows.
ThaiCsvRows ==
    {r \in CsvRows : r.CUISINE_DESCRIPTION = "Thai" /\ r.GRADE \in {"A", "C"}}

\* Lines as far as the map chain reads them: score and date are not read
\* after the selection, grades are one eligible and one not.
MapCsvRows ==
    {r \in CsvRows : r.SCORE = 0 /\ r.GRADE_DATE = 1 /\ r.GRADE \in {"A", "C"}}

\* The three inspection records of the selector's worked scenario.
ScenarioCsv ==
    << [CAMIS |-> 1, CUISINE_DESCRIPTION |-> "Thai", GRADE |-> "A",
        SCORE |-> 5, GRADE_DATE |-> 20230101],
       [CAMIS |-> 1, CUISINE_DESCRIPTION |-> "Thai", GRADE |-> "B",
        SCORE |-> 9, GRADE_DATE |-> 20230201],
       [CAMIS |-> 2, CUISINE_DESCRIPTION |-> "Thai", GRADE |-> "C",
        SCORE |-> 2, GRADE_DATE |-> 20230101] >>

CsvFiles(rows, maxlen) == UNION {[1..k -> rows] : k \in 0..maxlen}

\* pd.read_csv: one table row per line, labelled by a RangeIndex from 0;
\* DBA (the restaurant's name) goes with the restaurant identifier.
read_data_set(csv) ==
    [i \in 1..Len(csv) |->
        [index |-> i - 1,
         CAMIS |-> csv[i].CAMIS,
         DBA |-> <<"DBA", csv[i].CAMIS>>,
         CUISINE_DESCRIPTION |-> csv[i].CUISINE_DESCRIPTION,
         GRADE |-> csv[i].GRADE,
         SCORE |-> csv[i].SCORE,
         GRADE_DATE |-> csv[i].GRADE_DATE]]

(* ------------------------------ sorting -------------------------------- *)
Min(a, b) == IF a <= b THEN a ELSE b

RECURSIVE Reverse(_)
Reverse(s) == IF s = <<>> THEN <<>> ELSE Append(Reverse(Tail(s)), Head(s))

\* Insert pair p = <<key, row>> behind every pair whose key is not larger.
RECURSIVE InsertByKey(_, _)
InsertByKey(sorted, p) ==
    IF sorted = <<>> THEN <<p>>
    ELSE IF Head(sorted)[1] <= p[1]
         THEN <<Head(sorted)>> \o InsertByKey(Tail(sorted), p)
         ELSE <<p>> \o sorted

RECURSIVE StableSort(_)
StableSort(ps) ==
    IF ps = <<>> THEN <<>>
    ELSE InsertByKey(StableSort(SubSeq(ps, 1, Len(ps) - 1)), ps[Len(ps)])

\* sort_values is called without kind=, so it runs the default 'quicksort',
\* which is not a stable sort: the order it gives to rows of equal key is
\* whatever the library's quicksort leaves, the same on every call of one
\* build on one input, and not the rows' input order in general.  Two such
\* orders are kept: the rows' input order and the reverse of it.
TieOrders == {"input", "reversed"}

\* DataFrame.sort_values(by=..., ascending=...), keys(row) being the column
\* value for ascending=True and its negation for ascending=False.
sort_values(rows, keys, ties) ==
    LET ps == [i \in 1..Len(rows) |-> <<keys[i], rows[i]>>]
        out == StableSort(IF ties = "input" THEN ps ELSE Reverse(ps))
    IN  [i \in 1..Len(out) |-> out[i][2]]

\* drop_duplicates(subset=['CAMIS', 'GRADE DATE']): a duplicate only when the
\* date agrees too
RECURSIVE drop_duplicates_camis_and_date(_)
drop_duplicates_camis_and_date(rows) ==
    IF rows = <<>> THEN <<>>
    ELSE LET front == drop_duplicates_camis_and_date(SubSeq(rows, 1, Len(rows) - 1))
             last == rows[Len(rows)]
         IN  IF \E i \in 1..Len(front) :
                    /\ front[i].CAMIS = last.CAMIS
                    /\ front[i].GRADE_DATE = last.GRADE_DATE
             THEN front
             ELSE Append(front, last)

\* DataFrame.drop_duplicates(subset=['CAMIS'], keep='first')
RECURSIVE drop_duplicates(_)
drop_duplicates(rows) ==
    IF rows = <<>> THEN <<>>
    ELSE LET front == drop_duplicates(SubSeq(rows, 1, Len(rows) - 1))
             last == rows[Len(rows)]
         IN  IF \E i \in 1..Len(front) : front[i].CAMIS = last.CAMIS
             THEN front
             ELSE Append(front, last)

(* ------------------------------ selector ------------------------------- *)
\* (restos.GRADE == 'A') | ((restos.GRADE == 'B') & (cuisine == cuisine_type)):
\* the filter with the parentheses around the two grades left out
passes_filter_unparenthesised(resto, cuisine_type) ==
    \/ resto.GRADE = "A"
    \/ (resto.GRADE = "B" /\ resto.CUISINE_DESCRIPTION = cuisine_type)

\* ((restos.GRADE == 'A') | (restos.GRADE == 'B')) &
\* (restos['CUISINE DESCRIPTION'] == cuisine_type)
passes_filter(resto, cuisine_type) ==
    /\ (resto.GRADE = "A" \/ resto.GRADE = "B")
    /\ resto.CUISINE_DESCRIPTION = cuisine_type

\* sort_values(by='GRADE DATE') with ascending left at its default, True
candidates_oldest_first(restos, cuisine_type, qs) ==
    LET Keep(r) == passes_filter(r, cuisine_type)
        kept == SelectSeq(restos, Keep)
        by_date == sort_values(kept, [i \in 1..Len(kept) |-> kept[i].GRADE_DATE],
                               qs.date)
    IN  drop_duplicates(by_date)

\* lines 83-89: filter, sort by GRADE DATE descending, keep the first row of
\* each CAMIS
candidates(restos, cuisine_type, qs) ==
    LET Keep(r) == passes_filter(r, cuisine_type)
        kept == SelectSeq(restos, Keep)
        by_date == sort_values(kept, [i \in 1..Len(kept) |-> 0 - kept[i].GRADE_DATE],
                               qs.date)
    IN  drop_duplicates(by_date)

\* sort_values(by='SCORE', ascending=False)
get_top_N_descending(restos, cuisine_type, N, qs) ==
    LET cands == candidates(restos, cuisine_type, qs)
        by_score == sort_values(cands, [i \in 1..Len(cands) |-> 0 - cands[i].SCORE],
                                qs.score)
    IN  SubSeq(by_score, 1, Min(N, Len(by_score)))

\* .iloc[:N + 1]
get_top_N_one_more(restos, cuisine_type, N, qs) ==
    LET cands == candidates(restos, cuisine_type, qs)
        by_score == sort_values(cands, [i \in 1..Len(cands) |-> cands[i].SCORE],
                                qs.score)
    IN  SubSeq(by_score, 1, Min(N + 1, Len(by_score)))

get_top_N(restos, cuisine_type, N, qs) ==
    LET cands == candidates(restos, cuisine_type, qs)
        by_score == sort_values(cands, [i \in 1..Len(cands) |-> cands[i].SCORE],
                                qs.score)
    IN  SubSeq(by_score, 1, Min(N, Len(by_score)))

\* restos.sort_values(by='GRADE DATE', ascending=False, inplace=True) ahead of
\* the filter: the caller's table is reordered
restos_sorted_in_place(restos, cuisine_type, qs) ==
    sort_values(restos, [i \in 1..Len(restos) |-> 0 - restos[i].GRADE_DATE], qs.date)

\* get_top_N reads restos through .loc, sort_values and drop_duplicates, each
\* of which returns a new frame: the table it was handed stays as it was.
restos_after_get_top_N(restos, cuisine_type, qs) == restos

(* ------------------------------ geocoder ------------------------------- *)
\* Coordinates are tagged so that a number, NaN and None are three things.
Num(x) == <<"num", x>>
NaN == <<"nan">>
None == <<"none">>

\* One match of the service, read by
\* results[0].get('geometry', {}).get('location', {}).get('lat' / 'lng'):
\* a match without geometry reads as None.
Matches ==
    { [lat |-> Num(0), lng |-> Num(0)],
      [lat |-> Num(40), lng |-> Num(0 - 73)],
      [lat |-> None, lng |-> None] }

\* gmaps.geocode(address): no match, one match, or several ranked matches
GeocodeResults ==
    {<<>>} \cup {<<m>> : m \in Matches}
           \cup {<<[lat |-> Num(40), lng |-> Num(0 - 73)], [lat |-> Num(0), lng |-> Num(0)]>>}

\* the no-match branch returning 0 in place of np.nan
get_lat_lon_zero_when_empty(resto, results) ==
    IF Len(results) > 0
    THEN [name |-> resto.DBA, lat |-> results[1].lat, lon |-> results[1].lng]
    ELSE [name |-> resto.DBA, lat |-> Num(0), lon |-> Num(0)]

get_lat_lon(resto, results) ==
    IF Len(results) > 0
    THEN [name |-> resto.DBA, lat |-> results[1].lat, lon |-> results[1].lng]
    ELSE [name |-> resto.DBA, lat |-> NaN, lon |-> NaN]

\* Whether a point carries coordinates (neither np.nan nor None).
Present(point) == point.lat[1] = "num" /\ point.lon[1] = "num"

\* fig is the list holding the figure's data once plot_map has built it
NoFigure == <<>>

\* a presenter that leaves out the points without coordinates
Scattermapbox_present_only(points) ==
    LET shown == SelectSeq(points, Present)
    IN  [lon |-> [i \in 1..Len(shown) |-> shown[i].lon],
         lat |-> [i \in 1..Len(shown) |-> shown[i].lat],
         text |-> [i \in 1..Len(shown) |-> shown[i].name]]

\* data = [Scattermapbox(lon=[...], lat=[...], text=[...], ...)]
Scattermapbox(points) ==
    [lon |-> [i \in 1..Len(points) |-> points[i].lon],
     lat |-> [i \in 1..Len(points) |-> points[i].lat],
     text |-> [i \in 1..Len(points) |-> points[i].name]]

(* ------------------------------- state --------------------------------- *)
\* Module import: DF = read_data_set(), the dropdown shows 'Thai', and
\* app.layout holds generate_table(get_top_N(DF)[ADDRESS_COLUMNS]).
Loaded(csvs) ==
    /\ quicksort \in [date : TieOrders, score : TieOrders]
    /\ \E csv \in csvs : DF = read_data_set(csv)
    /\ value = DefaultCuisine
    /\ n = DefaultN
    /\ top_ten = get_top_N(DF, DefaultCuisine, DefaultN, quicksort)
    /\ pc = "idle"
    /\ lat_lons = <<>>
    /\ responses = <<>>
    /\ queries = <<>>
    /\ fig = NoFigure

Init ==
    Loaded(CsvFiles(CsvRows, MaxRows)
           \cup [1..(MaxRows + 1) -> ThaiCsvRows]
           \cup {ScenarioCsv})

InitMap == Loaded(CsvFiles(MapCsvRows, MaxMapRows))

(* ------------------------------ selector calls ------------------------- *)
\* A call get_top_N(DF, cuisine_type, N) with explicit arguments.
call_get_top_N(cuisine_type, N) ==
    /\ pc = "idle"
    /\ value' = cuisine_type
    /\ n' = N
    /\ top_ten' = get_top_N(DF, cuisine_type, N, quicksort)
    /\ DF' = restos_after_get_top_N(DF, cuisine_type, quicksort)
    /\ UNCHANGED <<quicksort, pc, lat_lons, responses, queries, fig>>

\* Callback of the dropdown: get_top_N(DF, cuisine_type=value)
print_table(v) ==
    /\ pc = "idle"
    /\ value' = v
    /\ n' = DefaultN
    /\ top_ten' = get_top_N(DF, v, DefaultN, quicksort)
    /\ DF' = restos_after_get_top_N(DF, v, quicksort)
    /\ UNCHANGED <<quicksort, pc, lat_lons, responses, queries, fig>>

Next ==
    \/ \E c \in DropdownValues, N \in 0..MaxN : call_get_top_N(c, N)
    \/ \E v \in DropdownValues : print_table(v)

Spec == Init /\ [][Next]_vars

(* ------------------------------ map chain ------------------------------ *)
\* Callback of the dropdown: plot_map(DF, cuisine_type=value), up to the
\* start of find_lat_lon.
plot_selection(v) ==
    /\ pc \in {"idle", "done", "failed"}
    /\ value' = v
    /\ n' = DefaultN
    /\ top_ten' = get_top_N(DF, v, DefaultN, quicksort)
    /\ DF' = restos_after_get_top_N(DF, v, quicksort)
    /\ pc' = "find_lat_lon"
    /\ lat_lons' = <<>>
    /\ responses' = <<>>
    /\ queries' = <<>>
    /\ fig' = NoFigure
    /\ UNCHANGED quicksort

\* find_lat_lon applies get_lat_lon to the next row of top_ten: the address
\* of that row is sent to the service, which answers with results.
find_lat_lon_row(results) ==
    /\ pc = "find_lat_lon"
    /\ Len(lat_lons) < Len(top_ten)
    /\ LET resto == top_ten[Len(lat_lons) + 1]
       IN  /\ queries' = Append(queries, resto.index)
           /\ responses' = Append(responses, results)
           /\ lat_lons' = Append(lat_lons, get_lat_lon(resto, results))
    /\ UNCHANGED <<DF, quicksort, value, n, top_ten, pc, fig>>

\* gmaps.geocode raises (network failure, service error): nothing catches
\* it, the callback ends without a figure.
geocode_raises ==
    /\ pc = "find_lat_lon"
    /\ Len(lat_lons) < Len(top_ten)
    /\ queries' = Append(queries, top_ten[Len(lat_lons) + 1].index)
    /\ pc' = "failed"
    /\ UNCHANGED <<DF, quicksort, value, n, top_ten, lat_lons, responses, fig>>

\* the figure built from whatever points are there, not waiting for
\* find_lat_lon to return
plot_map_figure_early ==
    /\ pc = "find_lat_lon"
    /\ fig' = <<Scattermapbox(lat_lons)>>
    /\ pc' = "done"
    /\ UNCHANGED <<DF, quicksort, value, n, top_ten, lat_lons, responses, queries>>

\* The rest of plot_map once find_lat_lon has returned: the figure.
plot_map_figure ==
    /\ pc = "find_lat_lon"
    /\ Len(lat_lons) = Len(top_ten)
    /\ fig' = <<Scattermapbox(lat_lons)>>
    /\ pc' = "done"
    /\ UNCHANGED <<DF, quicksort, value, n, top_ten, lat_lons, responses, queries>>

NextMap ==
    \/ \E v \in DropdownValues : plot_selection(v)
    \/ \E results \in GeocodeResults : find_lat_lon_row(results)
    \/ geocode_raises
    \/ plot_map_figure

SpecMap == InitMap /\ [][NextMap]_vars

(* ------------------------------ properties ----------------------------- *)
\* Rows of DF that pass the grade and cuisine filter of the latest selection.
Qualifying == {k \in 1..Len(DF) : passes_filter(DF[k], value)}

Rows(seq) == {seq[i] : i \in 1..Len(seq)}

\* C1: the result of get_top_N holds no two records with the same CAMIS.
C1_UniqueCamis ==
    \A i, j \in 1..Len(top_ten) : top_ten[i].CAMIS = top_ten[j].CAMIS => i = j

\* Two qualifying rows of one restaurant went in, and that restaurant and
\* another came out.
C1_Witness ==
    /\ \E j, k \in Qualifying : j # k /\ DF[j].CAMIS = DF[k].CAMIS
    /\ Len(top_ten) = 2

\* C2: every record of the result has GRADE 'A' or 'B' and exactly the
\* requested cuisine.
C2_GradeAndCuisine ==
    \A i \in 1..Len(top_ten) :
        /\ top_ten[i].GRADE \in {"A", "B"}
        /\ top_ten[i].CUISINE_DESCRIPTION = value

\* A record came out while the table also holds a grade-A row of the same
\* cuisine in another case and a row of the requested cuisine that is not A or B.
C2_Witness ==
    /\ Len(top_ten) >= 1
    /\ \E k \in 1..Len(DF) :
          \/ (DF[k].GRADE = "A" /\ DF[k].CUISINE_DESCRIPTION # value)
          \/ (DF[k].GRADE \notin {"A", "B"} /\ DF[k].CUISINE_DESCRIPTION = value)

\* The scenario of C3: for the three scenario records and cuisine 'Thai' the
\* result is exactly the record of restaurant 1 with score 9.
C3_Scenario ==
    (DF = read_data_set(ScenarioCsv) /\ value = "Thai" /\ n >= 1)
        => (Len(top_ten) = 1 /\ top_ten[1].CAMIS = 1 /\ top_ten[1].SCORE = 9)

C4_CurrentRecord ==
    \A i \in 1..Len(top_ten) : \A k \in 1..Len(DF) :
        DF[k].CAMIS = top_ten[i].CAMIS =>
            DF[k].GRADE_DATE <= top_ten[i].GRADE_DATE

\* C5: the result is the first N of the surviving records in ascending
\* order of SCORE: scores do not decrease along the result, and no surviving
\* record left out has a lower score than a record of the result.
C5_FirstNByScore ==
    LET surviving == Rows(candidates(DF, value, quicksort))
    IN  /\ Rows(top_ten) \subseteq surviving
        /\ Len(top_ten) = Min(n, Cardinality(surviving))
        /\ \A i \in 1..Len(top_ten) - 1 : top_ten[i].SCORE <= top_ten[i + 1].SCORE
        /\ \A r \in surviving \ Rows(top_ten) :
              \A i \in 1..Len(top_ten) : top_ten[i].SCORE <= r.SCORE

\* Two restaurants survive, the one with the higher score first in the
\* table, and N = 1 keeps the other.
C5_Witness ==
    /\ n = 1
    /\ Len(top_ten) = 1
    /\ \E j, k \in Qualifying :
          /\ j < k
          /\ DF[j].CAMIS # DF[k].CAMIS
          /\ DF[j].SCORE > DF[k].SCORE
          /\ top_ten[1] = DF[k]

\* C6: the result has min(N, number of restaurants with a qualifying row)
\* records.
C6_Size ==
    Len(top_ten) = Min(n, Cardinality({DF[k].CAMIS : k \in Qualifying}))

\* Three rows of two restaurants qualify, fewer than the N = 10 asked for,
\* and the result holds the two.
C6_Witness ==
    /\ Len(top_ten) = 2
    /\ n = DefaultN
    /\ Cardinality(Qualifying) = 3

C8_PointOfResponse ==
    /\ Len(lat_lons) = Len(responses)
    /\ \A i \in 1..Len(responses) :
          /\ lat_lons[i].name = top_ten[i].DBA
          /\ responses[i] = <<>> =>
                /\ lat_lons[i].lat = NaN /\ lat_lons[i].lon = NaN
                /\ lat_lons[i].lat # Num(0) /\ lat_lons[i].lon # Num(0)
                /\ \A m \in Matches : m.lat # lat_lons[i].lat /\ m.lng # lat_lons[i].lon
          /\ responses[i] # <<>> =>
                /\ lat_lons[i].lat = responses[i][1].lat
                /\ lat_lons[i].lon = responses[i][1].lng

\* One lookup of the selection found nothing and the chain went on.
C8_Witness ==
    /\ pc = "done"
    /\ \E i \in 1..Len(responses) : responses[i] = <<>> /\ lat_lons[i].lat = NaN

====
